---- MODULE Spec2Model ----
(***************************************************************************)
(* Model of the node orchestrator AENNode (src/aen_nodenode.py): the       *)
(* coroutine start() with its initial network synchronization, the         *)
(* evolutionary loop, its timing rule and its two except clauses.          *)
(*                                                                         *)
(* One node object and one task running start() are modelled.  pc is the   *)
(* position of that task: it rests at an await (a suspension point) or at  *)
(* one of the two synchronous points "loop" (the while test, line 90) and  *)
(* "cycle_time" (lines 109-110).  An awaited call resolves in one step:    *)
(* it returns, raises, or - when the task was cancelled while it was       *)
(* suspended there - throws CancelledError into start().                   *)
(***************************************************************************)
EXTENDS Integers, Sequences, FiniteSets, TLC

\* ---------------------------------------------------------------- bounds
MaxIter == 3          \* iterations of the loop that are explored
MaxDur == 1           \* an awaited call takes 0..MaxDur ticks of the loop clock
MaxInterval == 3      \* sync_interval_seconds ranges over 0..MaxInterval
NumStrategies == 2    \* distinct strategy values the perception brain returns

MaxIter2 == 1         \* iterations explored of a second start() on the same node
DefaultMaxRetry == 3  \* NodeConfig.max_retry_attempts: int = 3

Durations == 0..MaxDur
Intervals == 0..MaxInterval
Strategies == 1..NumStrategies
Retries == {1, DefaultMaxRetry}

\* NodeConfig, the fields start() and __init__ read (lines 21-28)
NodeConfig ==
  [enable_market_validation : BOOLEAN,
   sync_interval_seconds : Intervals,
   max_retry_attempts : Retries]

\* node_id: Field(..., min_length=3, max_length=50) (line 23)
MinIdLen == 3
MaxIdLen == 50

\* the alternatives of the node_type pattern (line 24)
NodeTypes == {"arbitrage_hunter", "volatility_sponge", "correlation_mapper"}

\* A node_id is modelled by its length.  A node_type is modelled as the
\* sequence of its pieces: a word, possibly followed by further characters.
IdLengths == {MinIdLen - 1, MinIdLen, MaxIdLen, MaxIdLen + 1}
RawNodeTypes ==
  {<<t>> : t \in NodeTypes}
    \cup {<<"arbitrage_hunter", "\n">>, <<"arbitrage_hunter", "x">>,
          <<"day_trader">>, <<>>}

\* what a caller may hand to NodeConfig(...): max_retry_attempts may be 0 too
RawRetries == {0} \cup Retries
RawArgs == [node_id : IdLengths, node_type : RawNodeTypes]
RawConfig ==
  [enable_market_validation : BOOLEAN,
   sync_interval_seconds : Intervals,
   max_retry_attempts : RawRetries]

\* regex="^(arbitrage_hunter|volatility_sponge|correlation_mapper)$" matched
\* from the start of the string (line 24): `$` matches at the end of the
\* string and also just before a newline that ends the string
RegexMatch(s) ==
  \E t \in NodeTypes : s = <<t>> \/ s = <<t, "\n">>

\* the constraints NodeConfig declares (lines 23-28): length of node_id and
\* pattern of node_type; the bool and the two int fields carry none
ValidConfig(a, cfg) ==
  /\ a.node_id >= MinIdLen
  /\ a.node_id <= MaxIdLen
  /\ RegexMatch(a.node_type)

\* the collaborators __init__ constructs, in its order (lines 53-58)
ConstructionOrder(cfg) ==
  <<"memory", "perception", "cognition">>
    \o (IF cfg.enable_market_validation THEN <<"validator">> ELSE <<>>)

\* the first k of them
Constructed(cfg, k) == {ConstructionOrder(cfg)[i] : i \in 1..k}
RequiredCollaborators(cfg) == Constructed(cfg, Len(ConstructionOrder(cfg)))

\* exceptions the construction of a collaborator may throw
ExceptionKinds == {"ConnectionError", "ValueError"}

\* self.state: Optional[NodeState] = None (line 46)
None == [timestamp |-> -1, strategy_embedding |-> 0]

\* NodeState snapshot built by _update_state(strategy, learning_state), by
\* the two fields that tell snapshots apart (lines 30-38); its timestamp is
\* monotonic: the snapshot of iteration k is given the timestamp k
NodeState(t, s) == [timestamp |-> t, strategy_embedding |-> s]

\* the learning-state value cognition returns is opaque to the orchestrator
LearningStates == {1}

\* the phases of one iteration, by the pc value of their await
Phases == {"generate", "validate", "update_cognition", "sync", "update_state"}

VARIABLES
  config,          \* self.config
  running,         \* self.running
  state,           \* self.state
  pc,              \* position of the task running start()
  exit,            \* how start() ended: "none", "return", "CancelledError", "Exception"
  now,             \* asyncio.get_event_loop().time()
  cycle_start,     \* local cycle_start
  cycle_time,      \* local cycle_time
  strategy,        \* local strategy
  validated,       \* local validated
  learning_state,  \* local learning_state
  error,           \* the exception e bound by `except Exception as e`, or "none"
  cancel_pending,  \* task.cancel() was called and CancelledError is not yet thrown
  \* history variables, read by the properties only
  iterations,      \* iterations of the loop begun so far
  phases,          \* phases entered in the current iteration, in order
  fails,           \* consecutive iterations ended by the error handler
  initial_syncs,   \* completed calls of _sync_with_network before the loop
  slept,           \* time slept in the current iteration
  work,            \* time the awaited phases of the current iteration took
  raised,          \* phase of the current iteration that raised, or "none"
  ever_accepted,   \* some validation has returned accept
  state_at_start,  \* self.state when the current iteration began
  cancel_at,       \* pc at which task.cancel() arrived, or "none"
  state_at_cancel, \* self.state when task.cancel() arrived
  iter_at_cancel,  \* iterations when task.cancel() arrived
  phases_at_cancel, \* phases when task.cancel() arrived
  \* the constructor and its caller
  args,            \* node_id and node_type handed to NodeConfig(...)
  collaborators,   \* collaborators constructed so far by __init__
  alerts,          \* messages sent through _emergency_telegram_alert
  ctor_raised,     \* exception the construction raised to its caller, or "none"
  \* a request from outside to stop the loop
  stop_iter,       \* iterations when self.running was set False from outside, or -1
  \* a second task running start() on the same node object
  pc2,             \* position of the second task
  strategy2,       \* its local strategy
  validated2,      \* its local validated
  elapsed2,        \* its clock reading since its cycle_start
  iterations2      \* iterations the second task has begun

vars ==
  <<config, running, state, pc, exit, now, cycle_start, cycle_time, strategy,
    validated, learning_state, error, cancel_pending, iterations, phases, fails,
    initial_syncs, slept, work, raised, ever_accepted, state_at_start,
    cancel_at, state_at_cancel, iter_at_cancel, phases_at_cancel,
    args, collaborators, alerts, ctor_raised, stop_iter,
    pc2, strategy2, validated2, elapsed2, iterations2>>

locals == <<cycle_start, cycle_time, strategy, validated, learning_state>>
cancel_hist == <<cancel_at, state_at_cancel, iter_at_cancel, phases_at_cancel>>
ctor_vars == <<args, collaborators, alerts, ctor_raised>>
task2_vars == <<pc2, strategy2, validated2, elapsed2, iterations2>>
others == <<ctor_vars, stop_iter, task2_vars>>

\* Nothing has run yet on the node: the values lines 46-47 set, no task, and
\* the history empty
NotStarted ==
  /\ running = FALSE
  /\ state = None
  /\ exit = "none"
  /\ now = 0
  /\ cycle_start = 0
  /\ cycle_time = 0
  /\ strategy = 0
  /\ validated = FALSE
  /\ learning_state = 0
  /\ error = "none"
  /\ cancel_pending = FALSE
  /\ iterations = 0
  /\ phases = <<>>
  /\ fails = 0
  /\ initial_syncs = 0
  /\ slept = 0
  /\ work = 0
  /\ raised = "none"
  /\ ever_accepted = FALSE
  /\ state_at_start = None
  /\ cancel_at = "none"
  /\ state_at_cancel = None
  /\ iter_at_cancel = 0
  /\ phases_at_cancel = <<>>
  /\ alerts = <<>>
  /\ ctor_raised = "none"
  /\ stop_iter = -1
  /\ pc2 = "idle"
  /\ strategy2 = 0
  /\ validated2 = FALSE
  /\ elapsed2 = 0
  /\ iterations2 = 0

\* AENNode.__init__ has returned (lines 45-65); start() not yet called
Init ==
  /\ config \in NodeConfig
  /\ args = [node_id |-> MinIdLen, node_type |-> <<"arbitrage_hunter">>]
  /\ collaborators = RequiredCollaborators(config)
  /\ pc = "idle"
  /\ NotStarted

\* Before NodeConfig(...) is called: any arguments
CtorInit ==
  /\ config \in RawConfig
  /\ args \in RawArgs
  /\ collaborators = {}
  /\ pc = "new"
  /\ NotStarted

\* ------------------------------------------------- awaited collaborators
\* What each awaited call can resolve to when the task is not cancelled.
\* Their bodies are not part of the orchestrator.

\* _sync_with_network(): returns, or raises
sync_with_network == {"ok", "Exception"}

\* _generate_strategy(): returns a strategy, or raises (lines 120-133)
generate_strategy == {"ok", "Exception"}

\* _validate_strategy(strategy): with validation disabled (self.validator is
\* None, line 61) every strategy is accepted without inspection and nothing
\* is awaited; with a validator it returns its decision, or raises
validate_strategy(cfg) ==
  IF cfg.enable_market_validation THEN {"accept", "reject", "Exception"} ELSE {"accept"}

\* _update_cognition(strategy): returns a learning state, or raises
update_cognition == {"ok", "Exception"}

\* _update_state(strategy, learning_state): replaces self.state, or raises
\* leaving the previous snapshot in place
update_state == {"ok", "Exception"}

\* _handle_cycle_error(e): logs the error and returns
handle_cycle_error == {"ok"}

\* The awaits of start() at which the task is really suspended
SuspensionPoints(cfg) ==
  {"init_sync", "generate", "update_cognition", "sync", "update_state",
   "sleep", "handle_error"}
    \cup (IF cfg.enable_market_validation THEN {"validate"} ELSE {})

\* What an await resolves to: CancelledError is thrown at the await when the
\* task was cancelled while suspended there, else the call's own outcome
Awaited(o) == IF cancel_pending THEN "CancelledError" ELSE o

\* ------------------------------------------------------ start(), lines 81-118

\* Except with its first clause lost: every exception, CancelledError
\* included, is treated as a cycle error and the loop goes on
Except_CancelAsError(exc) ==
  /\ pc' = "handle_error"
  /\ exit' = exit
  /\ error' = exc
  /\ running' = running

\* Except with its second clause lost: an exception of a phase ends the loop
Except_ErrorEndsLoop(exc) ==
  /\ pc' = "returned"
  /\ exit' = "return"
  /\ error' = error
  /\ running' = running

\* an exception that sends the iteration on to its interval sleep
Except_ErrorThenSleep(exc) ==
  /\ IF exc = "CancelledError"
     THEN /\ pc' = "returned"
          /\ exit' = "return"
          /\ error' = error
     ELSE /\ pc' = "cycle_time"
          /\ exit' = exit
          /\ error' = exc
  /\ running' = running

\* The two except clauses of the loop body (lines 113-118): CancelledError
\* breaks out of the loop and start() returns; any other exception is bound
\* to e and handed to the awaited _handle_cycle_error(e).  Neither touches
\* self.running.
Except(exc) ==
  /\ IF exc = "CancelledError"
     THEN /\ pc' = "returned"
          /\ exit' = "return"
          /\ error' = error
     ELSE /\ pc' = "handle_error"
          /\ exit' = exit
          /\ error' = exc
  /\ running' = running

\* the loop test of a bounded-retry policy: the loop stops after
\* max_retry_attempts consecutive failed iterations
LoopCondition_BoundedRetry == running /\ fails < config.max_retry_attempts

\* a loop that does not read the flag
LoopCondition_Always == TRUE

\* `while self.running:` (line 90): the loop test reads the flag and nothing else
LoopCondition == running

\* the branch on validated lost: the later phases always run
AfterValidation_Always(v) == "update_cognition"

\* the branch on validated inverted
AfterValidation_Inverted(v) == IF v THEN "cycle_time" ELSE "update_cognition"

\* an accepted strategy is synchronized without the learning update
AfterValidation_SkipLearning(v) == IF v THEN "sync" ELSE "cycle_time"

\* a rejected strategy is recorded at once
AfterValidation_RecordRejected(v) == IF v THEN "update_cognition" ELSE "update_state"

\* `if validated:` (line 98): the phase that follows validation
AfterValidation(v) == IF v THEN "update_cognition" ELSE "cycle_time"

\* `if cycle_time < self.config.sync_interval_seconds` (line 110)
ShouldSleep(ct, interval) == ct < interval

\* sleeping the whole interval whatever the work took
SleepArg_WholeInterval(ct, interval) == interval

\* the argument of asyncio.sleep (line 111)
SleepArg(ct, interval) == interval - ct

\* control moves on to p inside the try block after an await that took d
\* ticks; a phase that is entered is recorded
Resumed(p, d) ==
  /\ pc' = p
  /\ now' = now + d
  /\ work' = work + d
  /\ phases' = IF p \in Phases THEN Append(phases, p) ELSE phases
  /\ UNCHANGED <<running, exit, error, fails, cancel_pending, raised>>

\* an await inside the try block threw exc after d ticks: the except clauses
\* take over
Thrown(exc, d) ==
  /\ Except(exc)
  /\ cancel_pending' = FALSE
  /\ now' = IF exc = "CancelledError" THEN now ELSE now + d
  /\ work' = IF exc = "CancelledError" THEN work ELSE work + d
  /\ raised' = IF exc = "CancelledError" THEN raised ELSE pc
  /\ fails' = IF exc = "CancelledError" THEN fails ELSE fails + 1
  /\ phases' = phases

\* start() without its initial synchronization: the loop is entered at once
Start_NoInitialSync ==
  /\ pc = "idle"
  /\ running' = TRUE
  /\ pc' = "loop"
  /\ UNCHANGED <<config, state, exit, now, locals, error, cancel_pending,
                 iterations, phases, fails, initial_syncs, slept, work, raised,
                 ever_accepted, state_at_start, cancel_hist, others>>

\* self.running = True; then the initial await is reached (lines 83-87)
Start ==
  /\ pc = "idle"
  /\ running' = TRUE
  /\ pc' = "init_sync"
  /\ UNCHANGED <<config, state, exit, now, locals, error, cancel_pending,
                 iterations, phases, fails, initial_syncs, slept, work, raised,
                 ever_accepted, state_at_start, cancel_hist, others>>

\* await self._sync_with_network() before the loop (line 87): it is outside
\* the try block, so whatever it throws leaves start()
InitialSync ==
  /\ pc = "init_sync"
  /\ \E o \in sync_with_network, d \in Durations :
       LET r == Awaited(o) IN
       IF r = "ok"
       THEN /\ pc' = "loop"
            /\ initial_syncs' = initial_syncs + 1
            /\ now' = now + d
            /\ UNCHANGED <<exit, cancel_pending>>
       ELSE /\ pc' = "raised"
            /\ exit' = r
            /\ cancel_pending' = FALSE
            /\ UNCHANGED <<initial_syncs, now>>
  /\ UNCHANGED <<config, running, state, locals, error, iterations, phases,
                 fails, slept, work, raised, ever_accepted, state_at_start,
                 cancel_hist, others>>

\* `while self.running:` and the entry of the try block (lines 90-95).
\* cycle_time, strategy, validated and learning_state are dead here: each is
\* assigned in the iteration before it is read, so their old values are dropped.
\* The loop clock has an arbitrary origin and start() reads only differences
\* of it within one iteration: the clock is re-based to 0 where cycle_start
\* is read (line 92).
LoopCheck ==
  /\ pc = "loop"
  /\ IF LoopCondition
     THEN /\ iterations < MaxIter
          /\ now' = 0
          /\ cycle_start' = now'
          /\ cycle_time' = 0
          /\ strategy' = 0
          /\ validated' = FALSE
          /\ learning_state' = 0
          /\ iterations' = iterations + 1
          /\ pc' = "generate"
          /\ phases' = <<"generate">>
          /\ slept' = 0
          /\ work' = 0
          /\ raised' = "none"
          /\ state_at_start' = state
          /\ exit' = exit
     ELSE /\ pc' = "returned"
          /\ exit' = "return"
          /\ UNCHANGED <<now, locals, iterations, phases, slept, work, raised,
                         state_at_start>>
  /\ UNCHANGED <<config, running, state, error, cancel_pending, fails,
                 initial_syncs, ever_accepted, cancel_hist, others>>

\* strategy = await self._generate_strategy() (line 95)
GenerateStrategy ==
  /\ pc = "generate"
  /\ \E o \in generate_strategy, s \in Strategies, d \in Durations :
       LET r == Awaited(o) IN
       IF r = "ok"
       THEN /\ strategy' = s
            /\ Resumed("validate", d)
       ELSE /\ Thrown(r, d)
            /\ UNCHANGED strategy
  /\ UNCHANGED <<config, state, cycle_start, cycle_time, validated,
                 learning_state, iterations, initial_syncs, slept,
                 ever_accepted, state_at_start, cancel_hist, others>>

\* validated = await self._validate_strategy(strategy); if validated:
\* (lines 96-98)
ValidateStrategy ==
  /\ pc = "validate"
  /\ \E o \in validate_strategy(config), d \in Durations :
       LET r == Awaited(o) IN
       IF r \in {"accept", "reject"}
       THEN /\ validated' = (r = "accept")
            /\ ever_accepted' = (ever_accepted \/ r = "accept")
            /\ Resumed(AfterValidation(r = "accept"), d)
       ELSE /\ Thrown(r, d)
            /\ UNCHANGED <<validated, ever_accepted>>
  /\ UNCHANGED <<config, state, cycle_start, cycle_time, strategy,
                 learning_state, iterations, initial_syncs, slept,
                 state_at_start, cancel_hist, others>>

\* learning_state = await self._update_cognition(strategy) (line 100)
UpdateCognition ==
  /\ pc = "update_cognition"
  /\ \E o \in update_cognition, l \in LearningStates, d \in Durations :
       LET r == Awaited(o) IN
       IF r = "ok"
       THEN /\ learning_state' = l
            /\ Resumed("sync", d)
       ELSE /\ Thrown(r, d)
            /\ UNCHANGED learning_state
  /\ UNCHANGED <<config, state, cycle_start, cycle_time, strategy, validated,
                 iterations, initial_syncs, slept, ever_accepted,
                 state_at_start, cancel_hist, others>>

\* await self._sync_with_network() inside the loop (line 103)
SyncWithNetwork ==
  /\ pc = "sync"
  /\ \E o \in sync_with_network, d \in Durations :
       LET r == Awaited(o) IN
       IF r = "ok"
       THEN Resumed("update_state", d)
       ELSE Thrown(r, d)
  /\ UNCHANGED <<config, state, locals, iterations, initial_syncs, slept,
                 ever_accepted, state_at_start, cancel_hist, others>>

\* await self._update_state(strategy, learning_state) (line 106)
UpdateState ==
  /\ pc = "update_state"
  /\ \E o \in update_state, d \in Durations :
       LET r == Awaited(o) IN
       IF r = "ok"
       THEN /\ state' = NodeState(iterations, strategy)
            /\ Resumed("cycle_time", d)
       ELSE /\ Thrown(r, d)
            /\ UNCHANGED state
  /\ UNCHANGED <<config, locals, iterations, initial_syncs, slept,
                 ever_accepted, state_at_start, cancel_hist, others>>

\* cycle_time = now - cycle_start; if cycle_time < interval: (lines 109-110)
CycleTime ==
  /\ pc = "cycle_time"
  /\ cycle_time' = now - cycle_start
  /\ pc' = IF ShouldSleep(now - cycle_start, config.sync_interval_seconds)
           THEN "sleep" ELSE "loop"
  /\ fails' = 0
  /\ UNCHANGED <<config, running, state, exit, now, cycle_start, strategy,
                 validated, learning_state, error, cancel_pending, iterations,
                 phases, initial_syncs, slept, work, raised, ever_accepted,
                 state_at_start, cancel_hist, others>>

\* await asyncio.sleep(interval - cycle_time) (line 111)
Sleep ==
  /\ pc = "sleep"
  /\ LET r == Awaited("ok")
         t == SleepArg(cycle_time, config.sync_interval_seconds) IN
       IF r = "ok"
       THEN /\ pc' = "loop"
            /\ now' = now + t
            /\ slept' = t
            /\ UNCHANGED <<running, exit, error, fails, cancel_pending, raised,
                           work, phases>>
       ELSE /\ Thrown(r, 0)
            /\ UNCHANGED slept
  /\ UNCHANGED <<config, state, locals, iterations, initial_syncs,
                 ever_accepted, state_at_start, cancel_hist, others>>

\* await self._handle_cycle_error(e) (line 118): the handler of the except
\* clause is outside the try block, so a CancelledError thrown here leaves
\* start(); when it returns the while test is next
HandleCycleError ==
  /\ pc = "handle_error"
  /\ \E o \in handle_cycle_error, d \in Durations :
       LET r == Awaited(o) IN
       IF r = "ok"
       THEN /\ pc' = "loop"
            /\ error' = "none"
            /\ now' = now + d
            /\ UNCHANGED <<exit, cancel_pending>>
       ELSE /\ pc' = "raised"
            /\ exit' = r
            /\ cancel_pending' = FALSE
            /\ UNCHANGED <<error, now>>
  /\ UNCHANGED <<config, running, state, locals, iterations, phases, fails,
                 initial_syncs, slept, work, raised, ever_accepted,
                 state_at_start, cancel_hist, others>>

\* task.cancel() from outside while the task is suspended at an await
Cancel ==
  /\ pc \in SuspensionPoints(config)
  /\ ~cancel_pending
  /\ cancel_pending' = TRUE
  /\ cancel_at' = pc
  /\ state_at_cancel' = state
  /\ iter_at_cancel' = iterations
  /\ phases_at_cancel' = phases
  /\ UNCHANGED <<config, running, state, pc, exit, now, locals, error,
                 iterations, phases, fails, initial_syncs, slept, work, raised,
                 ever_accepted, state_at_start, others>>

\* ------------------------------------------- construction, lines 21-70

\* the handler without its `raise`: the constructor returns an object
InitFailed_Swallowed(e) ==
  /\ alerts' = Append(alerts, [node_id |-> args.node_id, error |-> e])
  /\ ctor_raised' = "none"
  /\ pc' = "idle"

\* `except Exception as e:` of __init__ (lines 67-70): the error is logged,
\* one alert with the node id and the error text is sent, and the bare
\* `raise` re-raises the exception that was caught
InitFailed(e) ==
  /\ alerts' = Append(alerts, [node_id |-> args.node_id, error |-> e])
  /\ ctor_raised' = e
  /\ pc' = "failed"

\* NodeConfig(node_id=..., node_type=..., ...): pydantic checks the declared
\* constraints and raises ValidationError when one is violated (lines 21-28)
ValidateConfig ==
  /\ pc = "new"
  /\ IF ValidConfig(args, config)
     THEN /\ pc' = "config"
          /\ UNCHANGED ctor_raised
     ELSE /\ pc' = "failed"
          /\ ctor_raised' = "ValidationError"
  /\ UNCHANGED <<config, running, state, exit, now, locals, error,
                 cancel_pending, iterations, phases, fails, initial_syncs,
                 slept, work, raised, ever_accepted, state_at_start,
                 cancel_hist, args, collaborators, alerts, stop_iter,
                 task2_vars>>

\* AENNode(config) (lines 43-70): state and running are set, then the
\* collaborators are constructed in order; the k+1-st constructor throws, or
\* all of them succeed
InitNode ==
  /\ pc = "config"
  /\ running' = FALSE
  /\ state' = None
  /\ \E k \in 0..Len(ConstructionOrder(config)), e \in ExceptionKinds :
       /\ collaborators' = Constructed(config, k)
       /\ IF k = Len(ConstructionOrder(config))
          THEN /\ pc' = "idle"
               /\ UNCHANGED <<alerts, ctor_raised>>
          ELSE InitFailed(e)
  /\ UNCHANGED <<config, exit, now, locals, error, cancel_pending,
                 iterations, phases, fails, initial_syncs, slept, work, raised,
                 ever_accepted, state_at_start, cancel_hist, args, stop_iter,
                 task2_vars>>

Next ==
  \/ Start
  \/ InitialSync
  \/ LoopCheck
  \/ GenerateStrategy
  \/ ValidateStrategy
  \/ UpdateCognition
  \/ SyncWithNetwork
  \/ UpdateState
  \/ CycleTime
  \/ Sleep
  \/ HandleCycleError
  \/ Cancel

Spec == Init /\ [][Next]_vars

\* The same node when nobody cancels the task.  The event loop resumes the
\* task whenever the call it awaits has completed, and every awaited call
\* completes: each step that is enabled is eventually taken.
NextUncancelled ==
  \/ Start
  \/ InitialSync
  \/ LoopCheck
  \/ GenerateStrategy
  \/ ValidateStrategy
  \/ UpdateCognition
  \/ SyncWithNetwork
  \/ UpdateState
  \/ CycleTime
  \/ Sleep
  \/ HandleCycleError

LiveSpec == Init /\ [][NextUncancelled]_vars /\ WF_vars(NextUncancelled)

\* node.running = False from outside (the flag is a public attribute, line
\* 47): other code runs only before start() is called or while the task is
\* suspended at an await
Stop ==
  /\ pc \in SuspensionPoints(config) \cup {"idle"}
  /\ IF pc = "idle" THEN stop_iter = -1 ELSE running
  /\ running' = FALSE
  /\ stop_iter' = iterations
  /\ UNCHANGED <<config, state, pc, exit, now, locals, error, cancel_pending,
                 iterations, phases, fails, initial_syncs, slept, work, raised,
                 ever_accepted, state_at_start, cancel_hist, ctor_vars,
                 task2_vars>>

\* The loop with a caller that may clear the running flag
StopNext ==
  \/ Next
  \/ Stop

StopSpec == Init /\ [][StopNext]_vars

\* ---------------------------- a second start() on the same node object
\*
\* start() has no guard against being called while it is already running
\* (lines 81-83), so asyncio.create_task(node.start()) twice gives two tasks
\* that run the same code on the same object.  They share self.running and
\* self.state; each has its own position and local variables (pc2, strategy2,
\* validated2, and elapsed2 for loop.time() - cycle_start).  The second task
\* is not cancelled here.

\* what the second task leaves alone
task1_vars ==
  <<config, pc, exit, now, locals, error, cancel_pending, iterations, phases,
    fails, initial_syncs, slept, work, raised, ever_accepted, state_at_start,
    cancel_hist, ctor_vars, stop_iter>>

\* an await of the second task resumed normally after d ticks, at p
Resumed2(p, d) ==
  /\ pc2' = p
  /\ elapsed2' = elapsed2 + d

\* an await of the second task raised: `except Exception` (lines 116-118)
Thrown2 ==
  /\ pc2' = "handle_error"
  /\ UNCHANGED elapsed2

\* self.running = True (line 83)
Start2 ==
  /\ pc2 = "idle"
  /\ running' = TRUE
  /\ pc2' = "init_sync"
  /\ UNCHANGED <<state, task1_vars, strategy2, validated2, elapsed2, iterations2>>

\* await self._sync_with_network() (line 87)
InitialSync2 ==
  /\ pc2 = "init_sync"
  /\ \E o \in sync_with_network :
       pc2' = IF o = "ok" THEN "loop" ELSE "raised"
  /\ UNCHANGED <<running, state, task1_vars, strategy2, validated2, elapsed2,
                 iterations2>>

\* while self.running: ... cycle_start = loop.time() (lines 90-92)
LoopCheck2 ==
  /\ pc2 = "loop"
  /\ IF LoopCondition
     THEN /\ iterations2 < MaxIter2
          /\ iterations2' = iterations2 + 1
          /\ pc2' = "generate"
          /\ elapsed2' = 0
          /\ strategy2' = 0
          /\ validated2' = FALSE
     ELSE /\ pc2' = "returned"
          /\ UNCHANGED <<iterations2, elapsed2, strategy2, validated2>>
  /\ UNCHANGED <<running, state, task1_vars>>

\* strategy = await self._generate_strategy() (line 95)
GenerateStrategy2 ==
  /\ pc2 = "generate"
  /\ \E o \in generate_strategy, s \in Strategies, d \in Durations :
       IF o = "ok"
       THEN /\ strategy2' = s
            /\ Resumed2("validate", d)
       ELSE /\ Thrown2
            /\ UNCHANGED strategy2
  /\ UNCHANGED <<running, state, task1_vars, validated2, iterations2>>

\* validated = await self._validate_strategy(strategy); if validated: (96-98)
ValidateStrategy2 ==
  /\ pc2 = "validate"
  /\ \E o \in validate_strategy(config), d \in Durations :
       IF o = "Exception"
       THEN /\ Thrown2
            /\ UNCHANGED validated2
       ELSE /\ validated2' = (o = "accept")
            /\ Resumed2(AfterValidation(o = "accept"), d)
  /\ UNCHANGED <<running, state, task1_vars, strategy2, iterations2>>

\* learning_state = await self._update_cognition(strategy) (line 100)
UpdateCognition2 ==
  /\ pc2 = "update_cognition"
  /\ \E o \in update_cognition, d \in Durations :
       IF o = "ok" THEN Resumed2("sync", d) ELSE Thrown2
  /\ UNCHANGED <<running, state, task1_vars, strategy2, validated2, iterations2>>

\* await self._sync_with_network() (line 103)
SyncWithNetwork2 ==
  /\ pc2 = "sync"
  /\ \E o \in sync_with_network, d \in Durations :
       IF o = "ok" THEN Resumed2("update_state", d) ELSE Thrown2
  /\ UNCHANGED <<running, state, task1_vars, strategy2, validated2, iterations2>>

\* await self._update_state(strategy, learning_state) (line 106)
UpdateState2 ==
  /\ pc2 = "update_state"
  /\ \E o \in update_state, d \in Durations :
       IF o = "ok"
       THEN /\ state' = NodeState(iterations2, strategy2)
            /\ Resumed2("cycle_time", d)
       ELSE /\ Thrown2
            /\ UNCHANGED state
  /\ UNCHANGED <<running, task1_vars, strategy2, validated2, iterations2>>

\* cycle_time = loop.time() - cycle_start; if cycle_time < interval (109-110)
CycleTime2 ==
  /\ pc2 = "cycle_time"
  /\ pc2' = IF ShouldSleep(elapsed2, config.sync_interval_seconds)
            THEN "sleep" ELSE "loop"
  /\ UNCHANGED <<running, state, task1_vars, strategy2, validated2, elapsed2,
                 iterations2>>

\* await asyncio.sleep(interval - cycle_time) (line 111)
Sleep2 ==
  /\ pc2 = "sleep"
  /\ pc2' = "loop"
  /\ UNCHANGED <<running, state, task1_vars, strategy2, validated2, elapsed2,
                 iterations2>>

\* await self._handle_cycle_error(e) (line 118)
HandleCycleError2 ==
  /\ pc2 = "handle_error"
  /\ \E o \in handle_cycle_error : pc2' = "loop"
  /\ UNCHANGED <<running, state, task1_vars, strategy2, validated2, elapsed2,
                 iterations2>>

\* one node with validation enabled and a sync interval of one tick
TwoInit ==
  /\ Init
  /\ config = [enable_market_validation |-> TRUE,
               sync_interval_seconds |-> 1,
               max_retry_attempts |-> DefaultMaxRetry]

\* Two tasks, neither of them cancelled
TwoNext ==
  \/ NextUncancelled
  \/ Start2
  \/ InitialSync2
  \/ LoopCheck2
  \/ GenerateStrategy2
  \/ ValidateStrategy2
  \/ UpdateCognition2
  \/ SyncWithNetwork2
  \/ UpdateState2
  \/ CycleTime2
  \/ Sleep2
  \/ HandleCycleError2

TwoSpec == TwoInit /\ [][TwoNext]_vars

\* Construction and start-up: from the call of NodeConfig(...) with any
\* arguments to the entry of the loop
CtorNext ==
  \/ ValidateConfig
  \/ InitNode
  \/ Start
  \/ InitialSync
  \/ Cancel

CtorSpec == CtorInit /\ [][CtorNext]_vars

\* ------------------------------------------------------------ properties

\* validation of the current iteration has returned reject
Rejected ==
  /\ Len(phases) >= 2
  /\ ~validated
  /\ raised = "none"
  /\ pc \in {"cycle_time", "sleep", "loop", "returned"}
  /\ ~(pc = "returned" /\ cancel_at = "validate")

\* C1: in an iteration whose validation returned reject, neither the learning
\* update nor the in-loop synchronization nor the state update is entered and
\* self.state is what it was when the iteration began; as long as no
\* validation has accepted, self.state is still None.
C1_RejectedSkipsLaterPhases ==
  /\ Rejected => (phases = <<"generate", "validate">> /\ state = state_at_start)
  /\ ~ever_accepted => state = None

\* a second iteration was rejected after an earlier one recorded a snapshot
C1_Witness ==
  /\ Rejected
  /\ pc = "loop"
  /\ iterations = 2
  /\ state # None

\* C2: an exception (other than cancellation) raised by any phase is caught
\* inside the loop: the error handler is awaited with the running flag still
\* true and start() not left; when the handler returns the loop test is next,
\* the flag is still true, and the loop test then begins a new iteration with
\* strategy generation.
C2_PhaseExceptionIsHandled ==
  /\ [](raised # "none" =>
          /\ running
          /\ pc \in {"handle_error", "loop", "raised"}
          /\ (pc = "handle_error" => (error = "Exception" /\ exit = "none"))
          /\ (pc = "loop" => (error = "none" /\ exit = "none"))
          /\ (pc = "raised" => (exit = "CancelledError" /\ cancel_at = "handle_error")))
  /\ [][(pc = "handle_error" /\ ~cancel_pending /\ pc' # pc) =>
          (pc' = "loop" /\ running')]_vars
  /\ [][(pc = "loop" /\ raised \in Phases /\ pc' # pc) =>
          (pc' = "generate" /\ iterations' = iterations + 1 /\ running')]_vars

\* a second iteration has begun after the first one failed
C2_Witness ==
  /\ pc = "generate"
  /\ iterations = 2
  /\ fails = 1
  /\ running
  /\ exit = "none"

\* C3 as claimed: once a cancellation has been thrown at whatever await the
\* task was suspended at, start() has returned normally.
C3_CancellationReturnsNormally ==
  (cancel_at # "none" /\ ~cancel_pending) => (pc = "returned" /\ exit = "return")

\* C4 as claimed, at the exit the CancelledError clause makes (lines 113-115):
\* when start() has returned because of a cancellation, the running flag is
\* false.
C4_RunningFalseAfterCancellation ==
  (cancel_at # "none" /\ ~cancel_pending /\ pc = "returned") => ~running

\* C5: a cancellation that arrives during the interval sleep ends the loop at
\* that sleep: start() returns normally, no further iteration and no further
\* phase is entered, and self.state is what it was when the signal arrived.
C5_CancelDuringSleepExits ==
  cancel_at = "sleep" =>
    /\ pc = (IF cancel_pending THEN "sleep" ELSE "returned")
    /\ (~cancel_pending => exit = "return")
    /\ state = state_at_cancel
    /\ iterations = iter_at_cancel
    /\ phases = phases_at_cancel

\* the loop was left at the sleep of an accepted iteration, snapshot in place
C5_Witness ==
  /\ cancel_at = "sleep"
  /\ pc = "returned"
  /\ state # None
  /\ iterations < MaxIter

\* C6 as claimed: as long as no cancellation was requested, start() has
\* neither returned nor raised.
C6_ReturnsOnlyOnCancellation ==
  cancel_at = "none" => pc \notin {"returned", "raised"}

\* C7: after an iteration in which nothing raised, with T the time its phases
\* took and I the configured interval: if T < I the loop slept exactly I - T
\* and the next loop test is I after the iteration's start; if T >= I it did
\* not sleep and the next loop test is T after the start.
C7_IntervalTiming ==
  (pc = "loop" /\ iterations >= 1 /\ raised = "none") =>
    LET I == config.sync_interval_seconds
        T == work
    IN  IF T < I
        THEN slept = I - T /\ now - cycle_start = I
        ELSE slept = 0 /\ now - cycle_start = T

\* a rejected iteration whose work took time, but less than the interval
C7_Witness ==
  /\ pc = "loop"
  /\ iterations >= 1
  /\ raised = "none"
  /\ ~validated
  /\ work > 0
  /\ work < config.sync_interval_seconds
  /\ slept > 0

\* C8: a node all of whose iterations fail keeps running: while it handles the
\* n-th consecutive failure the running flag is true and start() has not
\* ended, whatever max_retry_attempts is, and (nobody cancelling) iteration
\* n+1 is then started, for every n below the explored number of iterations.
C8_FailingNodeKeepsRunning ==
  /\ []((fails >= 1 /\ pc \in {"handle_error", "loop"}) => (running /\ exit = "none"))
  /\ \A n \in 1..(MaxIter - 1) :
       (pc = "handle_error" /\ fails = n /\ iterations = n)
         ~> (pc = "generate" /\ iterations = n + 1 /\ fails = n /\ running)

\* one more iteration begins after more consecutive failures than
\* max_retry_attempts
C8_Witness ==
  /\ pc = "generate"
  /\ fails = iterations - 1
  /\ fails > config.max_retry_attempts
  /\ running

\* C9: exactly one network synchronization completes before the loop: no
\* iteration begins before it has completed, and whenever the loop is reached
\* it has completed exactly once.
C9_OneInitialSync ==
  /\ initial_syncs <= 1
  /\ (initial_syncs = 0 =>
        (iterations = 0 /\ phases = <<>> /\ pc \in {"idle", "init_sync", "raised"}))
  /\ (pc \in Phases \cup {"loop", "cycle_time", "sleep", "handle_error"} =>
        initial_syncs = 1)

\* the first strategy generation, after the one initial synchronization
C9_Witness ==
  /\ pc = "generate"
  /\ iterations = 1
  /\ initial_syncs = 1

\* C10: with market validation disabled, every iteration in which no phase
\* raised (and that was not cancelled) entered all five phases in order and
\* recorded a new snapshot of its own.
C10_DisabledValidationAcceptsAll ==
  (/\ ~config.enable_market_validation
   /\ iterations >= 1
   /\ raised = "none"
   /\ pc \in {"cycle_time", "sleep", "loop"}) =>
    /\ validated
    /\ phases = <<"generate", "validate", "update_cognition", "sync", "update_state">>
    /\ state # None
    /\ state.timestamp = iterations
    /\ state # state_at_start

\* the second iteration of a node without validator has recorded its snapshot
C10_Witness ==
  /\ ~config.enable_market_validation
  /\ iterations = 2
  /\ pc = "sleep"
  /\ state # None
  /\ state.timestamp = 2
  /\ state_at_start # None

\* ------------------------------------------- order and frame, C15 - C17

\* the phases of an iteration in the order of lines 94-106
PhaseOrder == <<"generate", "validate", "update_cognition", "sync", "update_state">>

IsPrefix(s, u) ==
  /\ Len(s) <= Len(u)
  /\ \A i \in 1..Len(s) : s[i] = u[i]

\* C15: the phases entered in the current iteration are an initial part of
\* generation, validation, learning update, synchronization, state update
\* (strict order, none twice, each entered when its predecessor completed),
\* the phase in progress is the last one entered, and the learning update is
\* entered only after validation returned accept.
C15_PhasesInStrictOrder ==
  /\ IsPrefix(phases, PhaseOrder)
  /\ (pc \in Phases => phases # <<>> /\ phases[Len(phases)] = pc)
  /\ (Len(phases) >= 3 => validated)

\* all five phases of the second iteration were entered
C15_Witness ==
  /\ iterations = 2
  /\ pc = "update_state"
  /\ phases = PhaseOrder

\* C16: the state slot changes only when the state update completes, in an
\* iteration whose strategy was accepted and whose learning update and
\* synchronization completed without exception; every other step leaves it
\* unchanged, and it is empty before.
C16_StateChangesOnlyInStateUpdate ==
  /\ state = None
  /\ [][state' # state =>
          /\ pc = "update_state"
          /\ pc' = "cycle_time"
          /\ validated
          /\ phases = PhaseOrder
          /\ raised = "none"
          /\ ~cancel_pending
          /\ state' = NodeState(iterations, strategy)]_vars

\* the first snapshot, recorded by the second iteration after the first one
\* left the slot empty
C16_Witness ==
  /\ iterations = 2
  /\ pc = "cycle_time"
  /\ state_at_start = None
  /\ state = NodeState(2, strategy)

\* C17: an iteration aborted by an exception other than cancellation goes
\* to the error handler and from there to the loop test: it does not reach
\* its interval sleep, and once the handler has returned the next step is the
\* next strategy generation.
C17_NoSleepAfterError ==
  [][/\ (raised' # "none" =>
            /\ slept' = 0
            /\ pc' \in {"handle_error", "loop", "raised"})
     /\ (raised # "none" /\ pc = "loop" /\ pc' # pc => pc' = "generate")]_vars

\* the handler of the failed first iteration has returned
C17_Witness ==
  /\ iterations = 1
  /\ raised = "sync"
  /\ pc = "loop"
  /\ error = "none"
  /\ slept = 0

\* C19: once the running flag is cleared, no new iteration begins; when it
\* was cleared during an iteration (stop_iter >= 1) and the task is not
\* cancelled, the iteration runs on and start() is left only
\* from the loop test, returning normally, and from the loop test with the
\* flag cleared the only step is that return; a flag cleared before start()
\* is set again by start().
C19_StopExitsAtLoopCheck ==
  [][/\ (~running' /\ pc' # "idle" => iterations' = stop_iter')
     /\ (~running /\ stop_iter >= 1 /\ cancel_at = "none"
           /\ pc' \in {"returned", "raised"} /\ pc' # pc =>
           pc = "loop" /\ pc' = "returned" /\ exit' = "return")
     /\ (~running /\ pc = "loop" /\ pc' # pc => pc' = "returned")
     /\ (pc = "idle" /\ pc' # pc => running')]_vars

\* the flag was cleared during the second iteration, which went on to finish
\* its interval sleep, and start() returned
C19_Witness ==
  /\ ~running
  /\ stop_iter = 2
  /\ iterations = 2
  /\ cancel_at = "none"
  /\ slept > 0
  /\ pc = "returned"
  /\ exit = "return"

\* the position p of a task is inside an iteration of the loop
InIteration(p) == p \in Phases \cup {"cycle_time", "sleep", "handle_error"}

\* C18: at most one iteration is in progress on a node, also when start()
\* was called twice on it as two tasks.
C18_IterationsNeverInterleave ==
  ~(InIteration(pc) /\ InIteration(pc2))

\* ------------------------------------------------ construction, C11 - C14

\* AENNode(config) was called with a valid configuration and not all of the
\* collaborators the configuration requires were constructed
InitFailure ==
  /\ pc \notin {"new", "config"}
  /\ ctor_raised # "ValidationError"
  /\ collaborators # RequiredCollaborators(config)

\* C11: when the construction of a collaborator throws, exactly one alert
\* with the node identifier and the error text is sent, the constructor
\* raises, and the running flag is never true afterwards; without such a
\* failure no alert is sent.
C11_ConstructionFailureIsFatal ==
  /\ InitFailure =>
       /\ pc = "failed"
       /\ ~running
       /\ ctor_raised \in ExceptionKinds
       /\ alerts = <<[node_id |-> args.node_id, error |-> ctor_raised]>>
  /\ ~InitFailure => alerts = <<>>

\* the validator, constructed last, threw
C11_Witness ==
  /\ InitFailure
  /\ config.enable_market_validation
  /\ collaborators = {"memory", "perception", "cognition"}
  /\ Len(alerts) = 1

\* C12: whatever a collaborator's construction throws, the constructor
\* fails with an InitializationError.
C12_RaisesInitializationError ==
  InitFailure => ctor_raised = "InitializationError"

\* C13: a configuration that NodeConfig accepted has a positive sync
\* interval and a positive max_retry_attempts, so a running node has too.
C13_PositiveIntervalAndRetries ==
  pc \notin {"new", "failed"} =>
    /\ config.sync_interval_seconds > 0
    /\ config.max_retry_attempts > 0

\* C14: NodeConfig construction succeeded, or a collaborator exists, only if
\* node_id has 3 to 50 characters and node_type is exactly one of the three
\* node types.
C14_OnlyValidConfigConstructs ==
  (pc \in {"config", "idle"} \/ collaborators # {}) =>
    /\ args.node_id \in MinIdLen..MaxIdLen
    /\ args.node_type \in {<<t>> : t \in NodeTypes}

====
